---- MODULE Spec2Model ----
(***************************************************************************)
(* Speaker-turn state machine of the debate room (server/routers.ts):      *)
(* room.create / join / leave / setReady / start / advanceSpeaker,         *)
(* motion.generate and feedback.generate acting on one debate_rooms row    *)
(* and its debate_participants rows.                                       *)
(*                                                                         *)
(* SQL NULL is modelled as 0 for ids (autoincrement ids start at 1), as    *)
(* "null" for timestamps (a written timestamp is "date": the handlers      *)
(* never read one back) and as -1 for the nextSpeakerIndex returned by     *)
(* advanceSpeaker.                                                         *)
(***************************************************************************)
EXTENDS Integers, Sequences, FiniteSets, TLC

\* ---------------------------------------------------------------- bounds
\* Users that call the procedures of the main specification.
MaxUsers == 2
\* Motions motion.generate may create (autoincrement ids 1..MaxMotions).
MaxMotions == 1
\* advanceCalls saturates at this value.
MaxAdvanceCalls == 9
\* Rows each of the speeches, transcript_segments and points_of_information
\* tables may hold.
MaxRows == 1
\* Calls of one procedure that may be in flight at once.
MaxCalls == 2

Users == 1..MaxUsers

NULL == 0
NullDate == "null"
\* new Date()
NewDate == "date"
NoUser == 0
NoIndex == 0 - 1
NoRoom == [exists |-> FALSE]

\* ------------------------------------------------------- format definition
SPEAKING_ORDER ==
  << [role |-> "prime_minister",              team |-> "government", time |-> 420],
     [role |-> "leader_of_opposition",        team |-> "opposition", time |-> 420],
     [role |-> "deputy_prime_minister",       team |-> "government", time |-> 420],
     [role |-> "deputy_leader_of_opposition", team |-> "opposition", time |-> 420],
     [role |-> "government_whip",             team |-> "government", time |-> 420],
     [role |-> "opposition_whip",             team |-> "opposition", time |-> 420],
     [role |-> "opposition_reply",            team |-> "opposition", time |-> 240],
     [role |-> "government_reply",            team |-> "government", time |-> 240] >>

\* speakerRole enum of debate_participants, in the order of the z.enum of join
SpeakerRoles ==
  << "prime_minister", "deputy_prime_minister", "government_whip",
     "leader_of_opposition", "deputy_leader_of_opposition", "opposition_whip" >>

PrimaryRoles == { SpeakerRoles[i] : i \in 1..Len(SpeakerRoles) }
Teams == {"government", "opposition"}

govRoles == {"prime_minister", "deputy_prime_minister", "government_whip"}
oppRoles == {"leader_of_opposition", "deputy_leader_of_opposition", "opposition_whip"}

\* ------------------------------------------------------------------ state
VARIABLES
  room,          \* the debate_rooms row, or NoRoom before room.create
  participants,  \* the debate_participants rows of the room
  motions,       \* number of debate_motions rows (last autoincrement id)
  response,      \* the debate specification's record of the last call and its outcome
  advanceCalls,  \* the debate specification's count of advanceSpeaker calls
                 \* handled since the last successful start
  speeches,      \* the speeches rows of the room, by id
  transcriptSegments,  \* the transcript_segments rows, in insertion order
  pois,          \* the points_of_information rows, by id
  calls,         \* the calls in flight: for each, the await it stands at
                 \* and the values it has read so far
  liveTranscript,  \* a client's Debate page: the segments it holds
  lastSequence,    \* ... and the sequence number it polls after
  audioChunks,     \* the speaker's Debate page: audioChunksRef.current
  processedIndex   \* ... and processedIndexRef.current

vars == << room, participants, motions, response, advanceCalls,
           speeches, transcriptSegments, pois, calls,
           liveTranscript, lastSequence, audioChunks, processedIndex >>

history == << response, advanceCalls >>
sideTables == << speeches, transcriptSegments, pois >>
clientState == << liveTranscript, lastSequence, audioChunks, processedIndex >>

Calls == 1..MaxCalls
Idle == [pc |-> "idle"]

\* ---------------------------------------------------------------- helpers
\* Array.prototype.findIndex on the role of a slot: 0-based, -1 when absent.
RECURSIVE FindIndexFrom(_, _, _)
FindIndexFrom(order, role, i) ==
  IF i > Len(order) THEN NoIndex
  ELSE IF order[i].role = role THEN i - 1
  ELSE FindIndexFrom(order, role, i + 1)

FindIndex(order, role) == FindIndexFrom(order, role, 1)

\* new Set(participants.map(p => p.speakerRole))
ParticipantRoles(ps) == { p.speakerRole : p \in ps }

\* IsActiveSpeaker with the anchors of the two reply slots exchanged.
IsActiveSpeaker_SwappedAnchors(speaker, participantRoles) ==
  IF speaker.role = "opposition_reply" THEN "prime_minister" \in participantRoles
  ELSE IF speaker.role = "government_reply" THEN "leader_of_opposition" \in participantRoles
  ELSE speaker.role \in participantRoles

\* The callback of fullSpeakingOrder.filter in advanceSpeaker.
IsActiveSpeaker(speaker, participantRoles) ==
  IF speaker.role = "opposition_reply" THEN "leader_of_opposition" \in participantRoles
  ELSE IF speaker.role = "government_reply" THEN "prime_minister" \in participantRoles
  ELSE speaker.role \in participantRoles

\* Array.prototype.filter with the callback above, dropping the first kept slot.
FilterActive_DropFirst(order, participantRoles) ==
  LET kept == SelectSeq(order, LAMBDA speaker : IsActiveSpeaker(speaker, participantRoles))
  IN  IF kept = << >> THEN kept ELSE Tail(kept)

\* Array.prototype.filter with the callback above: the kept slots, in order.
FilterActive(order, participantRoles) ==
  SelectSeq(order, LAMBDA speaker : IsActiveSpeaker(speaker, participantRoles))

\* activeSpeakingOrder of advanceSpeaker.
ActiveSpeakingOrder(participantRoles) ==
  FilterActive(SPEAKING_ORDER, participantRoles)

\* The body of start's for loop: does slot i (0-based) end the search?
StartSlotPresent(i, participantRoles) ==
  LET role == SPEAKING_ORDER[i + 1].role IN
  IF role = "opposition_reply" THEN "leader_of_opposition" \in participantRoles
  ELSE IF role = "government_reply" THEN "prime_minister" \in participantRoles
  ELSE role \in participantRoles

\* start's loop over fullSpeakingOrder; firstSpeakerIndex stays 0 when no slot matches.
RECURSIVE FirstSpeakerLoop(_, _)
FirstSpeakerLoop(i, participantRoles) ==
  IF i >= Len(SPEAKING_ORDER) THEN 0
  ELSE IF StartSlotPresent(i, participantRoles) THEN i
  ELSE FirstSpeakerLoop(i + 1, participantRoles)

\* FirstSpeakerIndex without the loop: the debate always opens on slot 0.
FirstSpeakerIndex_AlwaysZero(participantRoles) == 0

FirstSpeakerIndex(participantRoles) == FirstSpeakerLoop(0, participantRoles)

\* db.updateDebateRoom: UPDATE ... WHERE id = roomId touches no row when the room is missing.
UpdateDebateRoom(r, updates) ==
  IF r.exists
    THEN [f \in DOMAIN r |-> IF f \in DOMAIN updates THEN updates[f] ELSE r[f]]
    ELSE r

Ok(op, user) ==
  [op |-> op, user |-> user, code |-> "OK", message |-> "",
   completed |-> FALSE, nextSpeakerIndex |-> NoIndex]

Err(op, user, code, message) ==
  [op |-> op, user |-> user, code |-> code, message |-> message,
   completed |-> FALSE, nextSpeakerIndex |-> NoIndex]

\* ------------------------------------------------------------------- Init
\* The database before any room is created.
Init ==
  /\ room = NoRoom
  /\ participants = {}
  /\ motions = 0
  /\ response = Ok("none", NoUser)
  /\ advanceCalls = 0
  /\ speeches = << >>
  /\ transcriptSegments = << >>
  /\ pois = << >>
  /\ calls = [c \in Calls |-> Idle]
  /\ liveTranscript = << >>
  /\ lastSequence = 0
  /\ audioChunks = << >>
  /\ processedIndex = 0

\* ---------------------------------------------------------------- actions
\* Each handler is an action on the three tables' variables; what it returns
\* or throws is the value of its ...Outcome operator in the state it is
\* called in.

\* room.create: inserts the room row; motionId, currentSpeakerIndex, startedAt
\* and endedAt take their column defaults.
RoomCreate(user) ==
  /\ room = NoRoom
  /\ room' = [exists |-> TRUE, creatorId |-> user, motionId |-> NULL,
              status |-> "waiting", currentPhase |-> "setup",
              currentSpeakerIndex |-> 0, startedAt |-> NullDate, endedAt |-> NullDate]
  /\ UNCHANGED << participants, motions >>

\* room.join
\* JoinOutcome without the team-role validation.
JoinOutcome_NoTeamCheck(user, team, speakerRole) ==
  IF ~room.exists THEN Err("room.join", user, "NOT_FOUND", "Room not found")
  ELSE IF room.status # "waiting"
    THEN Err("room.join", user, "BAD_REQUEST", "Room is not accepting participants")
  ELSE IF \E p \in participants : p.userId = user
    THEN Err("room.join", user, "BAD_REQUEST", "You are already in this room")
  ELSE IF \E p \in participants : p.speakerRole = speakerRole
    THEN Err("room.join", user, "BAD_REQUEST", "This speaker role is already taken")
  ELSE Ok("room.join", user)

JoinOutcome(user, team, speakerRole) ==
  IF ~room.exists THEN Err("room.join", user, "NOT_FOUND", "Room not found")
  ELSE IF room.status # "waiting"
    THEN Err("room.join", user, "BAD_REQUEST", "Room is not accepting participants")
  ELSE IF \E p \in participants : p.userId = user
    THEN Err("room.join", user, "BAD_REQUEST", "You are already in this room")
  ELSE IF \E p \in participants : p.speakerRole = speakerRole
    THEN Err("room.join", user, "BAD_REQUEST", "This speaker role is already taken")
  ELSE IF team = "government" /\ speakerRole \notin govRoles
    THEN Err("room.join", user, "BAD_REQUEST", "Invalid role for Government team")
  ELSE IF team = "opposition" /\ speakerRole \notin oppRoles
    THEN Err("room.join", user, "BAD_REQUEST", "Invalid role for Opposition team")
  ELSE Ok("room.join", user)

RoomJoin(user, team, speakerRole) ==
  /\ participants' =
       IF JoinOutcome(user, team, speakerRole).code = "OK"
         THEN participants \cup
                {[userId |-> user, team |-> team, speakerRole |-> speakerRole,
                  isReady |-> FALSE]}
         ELSE participants
  /\ UNCHANGED << room, motions >>

\* room.leave: deletes the caller's rows, whatever the room's status.
RoomLeave(user) ==
  /\ participants' = { p \in participants : p.userId # user }
  /\ UNCHANGED << room, motions >>

\* room.setReady
SetReadyOutcome(user) ==
  IF \E p \in participants : p.userId = user
    THEN Ok("room.setReady", user)
    ELSE Err("room.setReady", user, "NOT_FOUND", "You are not in this room")

RoomSetReady(user, isReady) ==
  /\ participants' =
       IF SetReadyOutcome(user).code = "OK"
         THEN { IF p.userId = user THEN [p EXCEPT !.isReady = isReady] ELSE p
                  : p \in participants }
         ELSE participants
  /\ UNCHANGED << room, motions >>

\* room.start
\* StartOutcome with some() for every() in the readiness check.
StartOutcome_SomeReady(user) ==
  IF ~room.exists THEN Err("room.start", user, "NOT_FOUND", "Room not found")
  ELSE IF room.creatorId # user
    THEN Err("room.start", user, "FORBIDDEN", "Only the room creator can start the debate")
  ELSE IF room.motionId = NULL
    THEN Err("room.start", user, "BAD_REQUEST", "A motion must be set before starting")
  ELSE IF Cardinality(participants) < 1
    THEN Err("room.start", user, "BAD_REQUEST",
             "At least one participant must join before starting")
  ELSE IF ~(\E p \in participants : p.isReady)
    THEN Err("room.start", user, "BAD_REQUEST", "All participants must be ready")
  ELSE Ok("room.start", user)

\* StartOutcome without the creator check.
StartOutcome_AnyCaller(user) ==
  IF ~room.exists THEN Err("room.start", user, "NOT_FOUND", "Room not found")
  ELSE IF room.motionId = NULL
    THEN Err("room.start", user, "BAD_REQUEST", "A motion must be set before starting")
  ELSE IF Cardinality(participants) < 1
    THEN Err("room.start", user, "BAD_REQUEST",
             "At least one participant must join before starting")
  ELSE IF ~(\A p \in participants : p.isReady)
    THEN Err("room.start", user, "BAD_REQUEST", "All participants must be ready")
  ELSE Ok("room.start", user)

\* StartOutcome without the participant count check (every() of no
\* participants is true).
StartOutcome_NoCountCheck(user) ==
  IF ~room.exists THEN Err("room.start", user, "NOT_FOUND", "Room not found")
  ELSE IF room.creatorId # user
    THEN Err("room.start", user, "FORBIDDEN", "Only the room creator can start the debate")
  ELSE IF room.motionId = NULL
    THEN Err("room.start", user, "BAD_REQUEST", "A motion must be set before starting")
  ELSE IF ~(\A p \in participants : p.isReady)
    THEN Err("room.start", user, "BAD_REQUEST", "All participants must be ready")
  ELSE Ok("room.start", user)

\* StartOutcome checking the motion before the caller.
StartOutcome_MotionFirst(user) ==
  IF ~room.exists THEN Err("room.start", user, "NOT_FOUND", "Room not found")
  ELSE IF room.motionId = NULL
    THEN Err("room.start", user, "BAD_REQUEST", "A motion must be set before starting")
  ELSE IF room.creatorId # user
    THEN Err("room.start", user, "FORBIDDEN", "Only the room creator can start the debate")
  ELSE IF Cardinality(participants) < 1
    THEN Err("room.start", user, "BAD_REQUEST",
             "At least one participant must join before starting")
  ELSE IF ~(\A p \in participants : p.isReady)
    THEN Err("room.start", user, "BAD_REQUEST", "All participants must be ready")
  ELSE Ok("room.start", user)

StartOutcome(user) ==
  IF ~room.exists THEN Err("room.start", user, "NOT_FOUND", "Room not found")
  ELSE IF room.creatorId # user
    THEN Err("room.start", user, "FORBIDDEN", "Only the room creator can start the debate")
  ELSE IF room.motionId = NULL
    THEN Err("room.start", user, "BAD_REQUEST", "A motion must be set before starting")
  ELSE IF Cardinality(participants) < 1
    THEN Err("room.start", user, "BAD_REQUEST",
             "At least one participant must join before starting")
  ELSE IF ~(\A p \in participants : p.isReady)
    THEN Err("room.start", user, "BAD_REQUEST", "All participants must be ready")
  ELSE Ok("room.start", user)

RoomStart(user) ==
  /\ room' =
       IF StartOutcome(user).code = "OK"
         THEN UpdateDebateRoom(room,
                [status |-> "in_progress", currentPhase |-> "debate",
                 currentSpeakerIndex |-> FirstSpeakerIndex(ParticipantRoles(participants)),
                 startedAt |-> NewDate])
         ELSE room
  /\ UNCHANGED << participants, motions >>

\* room.advanceSpeaker
\* fullSpeakingOrder[room.currentSpeakerIndex || 0]?.role
CurrentSpeakerRole(r) ==
  LET index == r.currentSpeakerIndex IN
  IF index + 1 \in DOMAIN SPEAKING_ORDER THEN SPEAKING_ORDER[index + 1].role
  ELSE "undefined"

\* NextActiveIndex stepping over the following position.
NextActiveIndex_SkipsOne(r, activeSpeakingOrder) ==
  FindIndex(activeSpeakingOrder, CurrentSpeakerRole(r)) + 2

NextActiveIndex(r, activeSpeakingOrder) ==
  FindIndex(activeSpeakingOrder, CurrentSpeakerRole(r)) + 1

\* Is the debate complete, i.e. is there no slot after the current one?
IsComplete(nextActiveIndex, activeSpeakingOrder) ==
  nextActiveIndex >= Len(activeSpeakingOrder)

\* NextFullIndex taking the position in the active order for the full-format index.
NextFullIndex_ActivePosition(nextActiveIndex, activeSpeakingOrder) == nextActiveIndex

NextFullIndex(nextActiveIndex, activeSpeakingOrder) ==
  FindIndex(SPEAKING_ORDER, activeSpeakingOrder[nextActiveIndex + 1].role)

AdvanceOutcome ==
  IF ~room.exists THEN Err("room.advanceSpeaker", NoUser, "NOT_FOUND", "Room not found")
  ELSE LET activeSpeakingOrder == ActiveSpeakingOrder(ParticipantRoles(participants))
           nextActiveIndex == NextActiveIndex(room, activeSpeakingOrder)
       IN  IF IsComplete(nextActiveIndex, activeSpeakingOrder)
             THEN [Ok("room.advanceSpeaker", NoUser) EXCEPT !.completed = TRUE]
             ELSE [Ok("room.advanceSpeaker", NoUser) EXCEPT
                     !.nextSpeakerIndex = NextFullIndex(nextActiveIndex, activeSpeakingOrder)]

\* The room as the terminal branch and as the other branch write it.
\* CompleteDebate without the status write.
CompleteDebate_NoStatus(r) ==
  UpdateDebateRoom(r, [currentPhase |-> "feedback", endedAt |-> NewDate])

CompleteDebate(r) ==
  UpdateDebateRoom(r, [currentPhase |-> "feedback", status |-> "completed",
                       endedAt |-> NewDate])

SetCurrentSpeaker(r, nextFullIndex) ==
  UpdateDebateRoom(r, [currentSpeakerIndex |-> nextFullIndex])

RoomAdvanceSpeaker ==
  /\ room' =
       IF AdvanceOutcome.code # "OK" THEN room
       ELSE IF AdvanceOutcome.completed THEN CompleteDebate(room)
       ELSE SetCurrentSpeaker(room, AdvanceOutcome.nextSpeakerIndex)
  /\ UNCHANGED << participants, motions >>

\* motion.generate: the LLM either answers with a motion, which is stored and
\* linked to the room, or the call throws before anything is stored.
MotionGenerate(llmOk) ==
  /\ IF llmOk
       THEN /\ motions < MaxMotions
            /\ motions' = motions + 1
            /\ room' = UpdateDebateRoom(room, [motionId |-> motions + 1])
       ELSE UNCHANGED << room, motions >>
  /\ UNCHANGED participants

\* feedback.generate writing the room's status along with its phase.
FeedbackGenerate_CompletesRoom(llmOk) ==
  /\ room' = IF llmOk THEN UpdateDebateRoom(room, [currentPhase |-> "completed",
                                                   status |-> "completed"])
                      ELSE room
  /\ UNCHANGED << participants, motions >>

\* feedback.generate: on a usable LLM answer the room's phase becomes
\* completed; otherwise the call throws before the room is written.
FeedbackGenerate(llmOk) ==
  /\ room' = IF llmOk THEN UpdateDebateRoom(room, [currentPhase |-> "completed"])
                      ELSE room
  /\ UNCHANGED << participants, motions >>

\* Every procedure above, from the empty database.
\* ------------------------------------------- speech, transcript and poi
\* getParticipantWithUser: is the user a participant of the room?
IsParticipant(user) == \E p \in participants : p.userId = user

\* speech.create: a speeches row for a participant of the room. Of the row's
\* columns the model keeps whether the speech has ended; the texts (transcript,
\* audioUrl) are not kept.
SpeechCreate(user) ==
  /\ Len(speeches) < MaxRows
  /\ speeches' = IF IsParticipant(user)
                 THEN Append(speeches, [ended |-> FALSE])
                 ELSE speeches
  /\ UNCHANGED << room, participants, motions, transcriptSegments, pois >>

\* updateSpeech: an UPDATE by id, which changes nothing when no row has the id.
UpdateSpeech(speechId, column, value) ==
  IF speechId \in DOMAIN speeches
  THEN [speeches EXCEPT ![speechId] = [@ EXCEPT ![column] = value]]
  ELSE speeches

\* speech.updateTranscript: writes the speech's texts and nothing else.
SpeechUpdateTranscript(speechId) ==
  UNCHANGED << room, participants, motions, speeches, transcriptSegments, pois >>

\* speech.end
SpeechEnd(speechId) ==
  /\ speeches' = UpdateSpeech(speechId, "ended", TRUE)
  /\ UNCHANGED << room, participants, motions, transcriptSegments, pois >>

\* getLatestTranscriptSequence: COALESCE(MAX(sequenceNumber), 0)
GetLatestTranscriptSequence ==
  LET numbers == { transcriptSegments[i].sequenceNumber : i \in DOMAIN transcriptSegments }
  IN  IF numbers = {} THEN 0 ELSE CHOOSE n \in numbers : \A m \in numbers : m <= n

\* speech.transcribe: nothing is stored for audio under 1000 bytes, for a
\* transcription error or for an unknown speech; otherwise the text is
\* appended to the speech's and stored as the room's next segment.
SpeechTranscribe(speechId, transcribed) ==
  /\ Len(transcriptSegments) < MaxRows
  /\ IF transcribed /\ speechId \in DOMAIN speeches
     THEN transcriptSegments' =
            Append(transcriptSegments,
                   [speechId |-> speechId,
                    sequenceNumber |-> GetLatestTranscriptSequence + 1])
     ELSE UNCHANGED transcriptSegments
  /\ UNCHANGED << room, participants, motions, speeches, pois >>

\* poi.offer: a points_of_information row offered by a participant.
PoiOffer(user) ==
  /\ Len(pois) < MaxRows
  /\ pois' = IF IsParticipant(user) THEN Append(pois, [accepted |-> FALSE]) ELSE pois
  /\ UNCHANGED << room, participants, motions, speeches, transcriptSegments >>

\* poi.respond: updatePOI by id.
PoiRespond(poiId, accepted) ==
  /\ pois' = IF poiId \in DOMAIN pois
             THEN [pois EXCEPT ![poiId] = [@ EXCEPT !.accepted = accepted]]
             ELSE pois
  /\ UNCHANGED << room, participants, motions, speeches, transcriptSegments >>

Next ==
  \/ \E user \in Users : RoomCreate(user) /\ UNCHANGED << history, sideTables, calls, clientState >>
  \/ \E user \in Users, team \in Teams, speakerRole \in PrimaryRoles :
       RoomJoin(user, team, speakerRole) /\ UNCHANGED << history, sideTables, calls, clientState >>
  \/ \E user \in Users : RoomLeave(user) /\ UNCHANGED << history, sideTables, calls, clientState >>
  \/ \E user \in Users, isReady \in BOOLEAN :
       RoomSetReady(user, isReady) /\ UNCHANGED << history, sideTables, calls, clientState >>
  \/ \E user \in Users : RoomStart(user) /\ UNCHANGED << history, sideTables, calls, clientState >>
  \/ RoomAdvanceSpeaker /\ UNCHANGED << history, sideTables, calls, clientState >>
  \/ \E llmOk \in BOOLEAN : MotionGenerate(llmOk) /\ UNCHANGED << history, sideTables, calls, clientState >>
  \/ \E llmOk \in BOOLEAN : FeedbackGenerate(llmOk) /\ UNCHANGED << history, sideTables, calls, clientState >>

Spec == Init /\ [][Next]_vars

\* ------------------------------------- the room with its side tables
\* All the procedures that write, with the speeches, transcript segments and
\* points of information of the room; joins are for the first speaker's role.
FrameRoles == {"prime_minister"}
SpeechIds == 1..MaxRows
PoiIds == 1..MaxRows

NextFrame ==
  \/ \E user \in Users : RoomCreate(user) /\ UNCHANGED << history, sideTables, calls, clientState >>
  \/ \E user \in Users, team \in Teams, speakerRole \in FrameRoles :
       RoomJoin(user, team, speakerRole) /\ UNCHANGED << history, sideTables, calls, clientState >>
  \/ \E user \in Users : RoomLeave(user) /\ UNCHANGED << history, sideTables, calls, clientState >>
  \/ \E user \in Users, isReady \in BOOLEAN :
       RoomSetReady(user, isReady) /\ UNCHANGED << history, sideTables, calls, clientState >>
  \/ \E user \in Users : RoomStart(user) /\ UNCHANGED << history, sideTables, calls, clientState >>
  \/ RoomAdvanceSpeaker /\ UNCHANGED << history, sideTables, calls, clientState >>
  \/ \E llmOk \in BOOLEAN : MotionGenerate(llmOk) /\ UNCHANGED << history, sideTables, calls, clientState >>
  \/ \E llmOk \in BOOLEAN : FeedbackGenerate(llmOk) /\ UNCHANGED << history, sideTables, calls, clientState >>
  \/ \E user \in Users : SpeechCreate(user) /\ UNCHANGED << history, calls, clientState >>
  \/ \E speechId \in SpeechIds : SpeechUpdateTranscript(speechId) /\ UNCHANGED << history, calls, clientState >>
  \/ \E speechId \in SpeechIds : SpeechEnd(speechId) /\ UNCHANGED << history, calls, clientState >>
  \/ \E speechId \in SpeechIds, transcribed \in BOOLEAN :
       SpeechTranscribe(speechId, transcribed) /\ UNCHANGED << history, calls, clientState >>
  \/ \E user \in Users : PoiOffer(user) /\ UNCHANGED << history, calls, clientState >>
  \/ \E poiId \in PoiIds, accepted \in BOOLEAN :
       PoiRespond(poiId, accepted) /\ UNCHANGED << history, calls, clientState >>

SpecFrame == Init /\ [][NextFrame]_vars

\* ------------------------------------------- room.join, await by await
\* A waiting room as room.create leaves it, nobody joined, no call in flight.
InitJoin ==
  /\ \E creator \in Users :
       room = [exists |-> TRUE, creatorId |-> creator, motionId |-> NULL,
               status |-> "waiting", currentPhase |-> "setup",
               currentSpeakerIndex |-> 0,
               startedAt |-> NullDate, endedAt |-> NullDate]
  /\ participants = {}
  /\ motions = 0
  /\ response = Ok("none", NoUser)
  /\ advanceCalls = 0
  /\ speeches = << >>
  /\ transcriptSegments = << >>
  /\ pois = << >>
  /\ calls = [c \in Calls |-> Idle]
  /\ liveTranscript = << >>
  /\ lastSequence = 0
  /\ audioChunks = << >>
  /\ processedIndex = 0

\* A room.join call arrives and reads the room: it goes on only for a
\* waiting room.
JoinGetRoom(c, user, team, speakerRole) ==
  /\ calls[c] = Idle
  /\ calls' = IF room.exists /\ room.status = "waiting"
              THEN [calls EXCEPT ![c] = [pc |-> "existing", user |-> user,
                                         team |-> team, speakerRole |-> speakerRole]]
              ELSE calls
  /\ UNCHANGED << room, participants, motions >>

\* The call reads the caller's participant row: it goes on when there is none.
JoinGetExisting(c) ==
  /\ calls[c].pc = "existing"
  /\ calls' = IF \E p \in participants : p.userId = calls[c].user
              THEN [calls EXCEPT ![c] = Idle]
              ELSE [calls EXCEPT ![c].pc = "participants"]
  /\ UNCHANGED << room, participants, motions >>

\* The call reads the room's participants: it goes on when none of them
\* holds the role and the role is one of the team's.
JoinGetParticipants(c) ==
  /\ calls[c].pc = "participants"
  /\ calls' = IF \/ \E p \in participants : p.speakerRole = calls[c].speakerRole
                 \/ calls[c].team = "government" /\ calls[c].speakerRole \notin govRoles
                 \/ calls[c].team = "opposition" /\ calls[c].speakerRole \notin oppRoles
              THEN [calls EXCEPT ![c] = Idle]
              ELSE [calls EXCEPT ![c].pc = "addParticipant"]
  /\ UNCHANGED << room, participants, motions >>

\* The call inserts its row and returns.
JoinAddParticipant(c) ==
  /\ calls[c].pc = "addParticipant"
  /\ participants' = participants \cup
                       {[userId |-> calls[c].user, team |-> calls[c].team,
                         speakerRole |-> calls[c].speakerRole, isReady |-> FALSE]}
  /\ calls' = [calls EXCEPT ![c] = Idle]
  /\ UNCHANGED << room, motions >>

NextJoin ==
  \/ \E c \in Calls, user \in Users, team \in Teams, speakerRole \in PrimaryRoles :
       JoinGetRoom(c, user, team, speakerRole) /\ UNCHANGED << history, sideTables, clientState >>
  \/ \E c \in Calls : JoinGetExisting(c) /\ UNCHANGED << history, sideTables, clientState >>
  \/ \E c \in Calls : JoinGetParticipants(c) /\ UNCHANGED << history, sideTables, clientState >>
  \/ \E c \in Calls : JoinAddParticipant(c) /\ UNCHANGED << history, sideTables, clientState >>

SpecJoin == InitJoin /\ [][NextJoin]_vars

\* ------------------------------------------------- the debate of one lobby
\* A lobby as create, join, setReady and motion.generate can leave it: no room
\* at all, or a room in its created state, with or without a motion, and any
\* roster of distinct roles held by distinct users (the holder of
\* SpeakerRoles[i] is user i), each ready or not.
Roster(roles, ready) ==
  { [userId |-> i, team |-> IF SpeakerRoles[i] \in govRoles THEN "government"
                                                            ELSE "opposition",
     speakerRole |-> SpeakerRoles[i], isReady |-> SpeakerRoles[i] \in ready]
      : i \in { j \in 1..Len(SpeakerRoles) : SpeakerRoles[j] \in roles } }

InitDebate ==
  /\ \E motionId \in 0..MaxMotions :
       /\ motions = motionId
       /\ \/ /\ room = NoRoom
             /\ participants = {}
          \/ /\ \E creator \in Users :
                  room = [exists |-> TRUE, creatorId |-> creator, motionId |-> motionId,
                          status |-> "waiting", currentPhase |-> "setup",
                          currentSpeakerIndex |-> 0,
                          startedAt |-> NullDate, endedAt |-> NullDate]
             /\ \E roles \in SUBSET PrimaryRoles : \E ready \in SUBSET roles :
                  participants = Roster(roles, ready)
  /\ response = Ok("none", NoUser)
  /\ advanceCalls = 0
  /\ speeches = << >>
  /\ transcriptSegments = << >>
  /\ pois = << >>
  /\ calls = [c \in Calls |-> Idle]
  /\ liveTranscript = << >>
  /\ lastSequence = 0
  /\ audioChunks = << >>
  /\ processedIndex = 0

\* start and advanceSpeaker on that lobby, the roster being left alone. Each
\* call's outcome is recorded in response, and advanceCalls counts the
\* advanceSpeaker calls since the last successful start.
DebateStart(user) ==
  /\ RoomStart(user)
  /\ response' = StartOutcome(user)
  /\ advanceCalls' = IF StartOutcome(user).code = "OK" THEN 0 ELSE advanceCalls

DebateAdvanceSpeaker ==
  /\ RoomAdvanceSpeaker
  /\ response' = AdvanceOutcome
  /\ advanceCalls' = IF advanceCalls < MaxAdvanceCalls THEN advanceCalls + 1
                                                       ELSE advanceCalls

NextDebate ==
  \/ \E user \in Users : DebateStart(user) /\ UNCHANGED << sideTables, calls, clientState >>
  \/ DebateAdvanceSpeaker /\ UNCHANGED << sideTables, calls, clientState >>

SpecDebate == InitDebate /\ [][NextDebate]_vars

\* ---------------------------------- room.advanceSpeaker, await by await
\* A room as a successful room.start leaves it: a motion, a roster of one or
\* more distinct roles, everyone ready, the first joined slot current. The
\* roster stays as it is.
InitAdvance ==
  /\ \E creator \in Users : \E roles \in (SUBSET PrimaryRoles) \ {{}} :
       /\ room = [exists |-> TRUE, creatorId |-> creator, motionId |-> 1,
                  status |-> "in_progress", currentPhase |-> "debate",
                  currentSpeakerIndex |-> FirstSpeakerIndex(roles),
                  startedAt |-> NewDate, endedAt |-> NullDate]
       /\ participants = Roster(roles, roles)
  /\ motions = 1
  /\ response = Ok("none", NoUser)
  /\ advanceCalls = 0
  /\ speeches = << >>
  /\ transcriptSegments = << >>
  /\ pois = << >>
  /\ calls = [c \in Calls |-> Idle]
  /\ liveTranscript = << >>
  /\ lastSequence = 0
  /\ audioChunks = << >>
  /\ processedIndex = 0

\* A room.advanceSpeaker call arrives and reads the room row.
AdvanceGetRoom(c) ==
  /\ calls[c] = Idle
  /\ calls' = IF room.exists
              THEN [calls EXCEPT ![c] = [pc |-> "participants", room |-> room]]
              ELSE calls
  /\ UNCHANGED << room, participants, motions >>

\* The call reads the room's participants.
AdvanceGetParticipants(c) ==
  /\ calls[c].pc = "participants"
  /\ calls' = [calls EXCEPT ![c] = [pc |-> "update", room |-> calls[c].room,
                                    participantRoles |-> ParticipantRoles(participants)]]
  /\ UNCHANGED << room, participants, motions >>

\* The call computes the next slot from what it has read and updates the
\* room row: the terminal columns, or currentSpeakerIndex.
AdvanceUpdateRoom(c) ==
  /\ calls[c].pc = "update"
  /\ LET activeSpeakingOrder == ActiveSpeakingOrder(calls[c].participantRoles)
         nextActiveIndex == NextActiveIndex(calls[c].room, activeSpeakingOrder)
     IN  room' = IF IsComplete(nextActiveIndex, activeSpeakingOrder)
                   THEN CompleteDebate(room)
                   ELSE SetCurrentSpeaker(room, NextFullIndex(nextActiveIndex,
                                                              activeSpeakingOrder))
  /\ calls' = [calls EXCEPT ![c] = Idle]
  /\ UNCHANGED << participants, motions >>

NextAdvance ==
  \/ \E c \in Calls : AdvanceGetRoom(c) /\ UNCHANGED << history, sideTables, clientState >>
  \/ \E c \in Calls : AdvanceGetParticipants(c) /\ UNCHANGED << history, sideTables, clientState >>
  \/ \E c \in Calls : AdvanceUpdateRoom(c) /\ UNCHANGED << history, sideTables, clientState >>

SpecAdvance == InitAdvance /\ [][NextAdvance]_vars

\* ------------------------------------------------------------ properties
\* ------------------------------------------------- the client's Debate page
\* currentParticipant: the participants that participants.find's callback
\* accepts for the slot at currentSpeakerIndex (find returns the first of them).
CurrentParticipants ==
  LET currentSpeakerRole == CurrentSpeakerRole(room)
  IN  { p \in participants :
          \/ p.speakerRole = currentSpeakerRole
          \/ currentSpeakerRole = "opposition_reply" /\ p.speakerRole = "leader_of_opposition"
          \/ currentSpeakerRole = "government_reply" /\ p.speakerRole = "prime_minister" }

\* isMyTurn for a signed-in user: currentParticipant?.userId === user?.id
IsMyTurn(user) == \E p \in CurrentParticipants : p.userId = user

\* ------------------------------------- speech.transcribe, await by await
\* Segments the transcribe calls may store.
MaxSegments == 3

\* A started room with one speech created, no segment stored, no call in
\* flight, and a client that has just opened the Debate page.
InitTranscribe ==
  /\ \E creator \in Users :
       room = [exists |-> TRUE, creatorId |-> creator, motionId |-> 1,
               status |-> "in_progress", currentPhase |-> "debate",
               currentSpeakerIndex |-> 0,
               startedAt |-> NewDate, endedAt |-> NullDate]
  /\ participants = {}
  /\ motions = 1
  /\ response = Ok("none", NoUser)
  /\ advanceCalls = 0
  /\ speeches = << [ended |-> FALSE] >>
  /\ transcriptSegments = << >>
  /\ pois = << >>
  /\ calls = [c \in Calls |-> Idle]
  /\ liveTranscript = << >>
  /\ lastSequence = 0
  /\ audioChunks = << >>
  /\ processedIndex = 0

InFlight == { c \in Calls : calls[c] # Idle }

\* A speech.transcribe call arrives, has its audio transcribed and reads the
\* speech: it goes on when there is a text and the speech exists (the speech's
\* text, which it then updates, is not kept).
TranscribeGetSpeech(c, speechId, transcribed) ==
  /\ calls[c] = Idle
  /\ Len(transcriptSegments) + Cardinality(InFlight) < MaxSegments
  /\ calls' = IF transcribed /\ speechId \in DOMAIN speeches
              THEN [calls EXCEPT ![c] = [pc |-> "latestSeq", speechId |-> speechId]]
              ELSE calls
  /\ UNCHANGED << room, participants, motions, sideTables >>

\* The call reads the room's latest sequence number.
TranscribeGetLatestSequence(c) ==
  /\ calls[c].pc = "latestSeq"
  /\ calls' = [calls EXCEPT ![c] = [pc |-> "createSegment",
                                    speechId |-> calls[c].speechId,
                                    latestSeq |-> GetLatestTranscriptSequence]]
  /\ UNCHANGED << room, participants, motions, sideTables >>

\* The call inserts its segment, numbered one more than what it read.
TranscribeCreateSegment(c) ==
  /\ calls[c].pc = "createSegment"
  /\ transcriptSegments' =
       Append(transcriptSegments,
              [speechId |-> calls[c].speechId,
               sequenceNumber |-> calls[c].latestSeq + 1])
  /\ calls' = [calls EXCEPT ![c] = Idle]
  /\ UNCHANGED << room, participants, motions, speeches, pois >>

\* getRoomTranscriptSegments: the room's segments (those numbered above
\* afterSequence; NoIndex for all of them) as the client keeps them, with
\* their autoincrement id, ORDER BY sequenceNumber. Rows with one number
\* come in id order here; SQL leaves their order open.
RECURSIVE SegmentsFrom(_)
SegmentsFrom(ids) ==
  IF ids = {} THEN << >>
  ELSE LET id == CHOOSE i \in ids : \A j \in ids :
                   \/ transcriptSegments[i].sequenceNumber < transcriptSegments[j].sequenceNumber
                   \/ /\ transcriptSegments[i].sequenceNumber = transcriptSegments[j].sequenceNumber
                      /\ i <= j
       IN  << [id |-> id, sequenceNumber |-> transcriptSegments[id].sequenceNumber] >>
             \o SegmentsFrom(ids \ {id})

GetRoomTranscriptSegments(afterSequence) ==
  SegmentsFrom({ i \in DOMAIN transcriptSegments :
                   transcriptSegments[i].sequenceNumber > afterSequence })

\* Array.prototype.sort((a, b) => a.sequenceNumber - b.sequenceNumber): stable.
RECURSIVE SortBySequenceNumber(_)
SortBySequenceNumber(rows) ==
  IF rows = << >> THEN << >>
  ELSE LET k == CHOOSE i \in DOMAIN rows : \A j \in DOMAIN rows :
                  \/ rows[i].sequenceNumber < rows[j].sequenceNumber
                  \/ rows[i].sequenceNumber = rows[j].sequenceNumber /\ i <= j
       IN  << rows[k] >> \o
             SortBySequenceNumber([i \in 1..(Len(rows) - 1) |->
                                     IF i < k THEN rows[i] ELSE rows[i + 1]])

MaxSequenceNumber(rows) ==
  CHOOSE n \in { rows[i].sequenceNumber : i \in DOMAIN rows } :
    \A i \in DOMAIN rows : rows[i].sequenceNumber <= n

\* transcript.poll with afterSequence = lastSequence, and the effect that
\* merges its answer into liveTranscript.
TranscriptPoll ==
  /\ room.exists /\ room.status = "in_progress"
  /\ LET newSegments == GetRoomTranscriptSegments(lastSequence)
         existingIds == { liveTranscript[i].id : i \in DOMAIN liveTranscript }
         uniqueNew == SelectSeq(newSegments, LAMBDA seg : seg.id \notin existingIds)
     IN  IF newSegments # << >>
         THEN /\ liveTranscript' = SortBySequenceNumber(liveTranscript \o uniqueNew)
              /\ lastSequence' = IF MaxSequenceNumber(newSegments) > lastSequence
                                 THEN MaxSequenceNumber(newSegments) ELSE lastSequence
         ELSE UNCHANGED << liveTranscript, lastSequence >>
  /\ UNCHANGED << room, participants, motions, sideTables, calls, audioChunks, processedIndex >>

\* transcript.getAll, asked while lastSequence is 0, and the effect that
\* replaces liveTranscript by its answer.
TranscriptGetAll ==
  /\ room.exists /\ room.status = "in_progress" /\ lastSequence = 0
  /\ LET segments == GetRoomTranscriptSegments(NoIndex)
     IN  IF segments # << >>
         THEN /\ liveTranscript' = segments
              /\ lastSequence' = MaxSequenceNumber(segments)
         ELSE UNCHANGED << liveTranscript, lastSequence >>
  /\ UNCHANGED << room, participants, motions, sideTables, calls, audioChunks, processedIndex >>

NextTranscribe ==
  \/ \E c \in Calls, speechId \in SpeechIds, transcribed \in BOOLEAN :
       TranscribeGetSpeech(c, speechId, transcribed) /\ UNCHANGED << history, clientState >>
  \/ \E c \in Calls : TranscribeGetLatestSequence(c) /\ UNCHANGED << history, clientState >>
  \/ \E c \in Calls : TranscribeCreateSegment(c) /\ UNCHANGED << history, clientState >>
  \/ TranscriptPoll /\ UNCHANGED history
  \/ TranscriptGetAll /\ UNCHANGED history

SpecTranscribe == InitTranscribe /\ [][NextTranscribe]_vars

\* ------------------------------------------- the speaker's audio queue
\* Chunks the recorder may deliver during one speech.
MaxChunks == 3
\* Sizes of a recorded chunk, in bytes.
ChunkSizes == {300, 700}
\* processAudioChunk sends a blob of at least this many bytes ...
MinBlobSize == 500
\* ... and speech.transcribe transcribes audio of at least this many.
MinAudioSize == 1000

\* What becomes of a speech.transcribe request: the provider returns a text,
\* the provider returns an error, or the request itself fails.
TranscribeResults == {"text", "error", "rejected"}

\* mediaRecorder.ondataavailable: audioChunksRef.current.push(event.data)
RecordChunk(size) ==
  /\ Len(audioChunks) < MaxChunks
  /\ audioChunks' = Append(audioChunks, size)
  /\ UNCHANGED << room, participants, motions, sideTables, calls,
                  liveTranscript, lastSequence, processedIndex >>

RECURSIVE BlobSize(_)
BlobSize(chunks) ==
  IF chunks = << >> THEN 0 ELSE Head(chunks) + BlobSize(Tail(chunks))

\* speech.transcribe as one call, on the audio of the chunks numbered
\* from..to: the segment it stores, if any (its text stands for those chunks).
TranscribedSegments(speechId, from, to, result) ==
  IF BlobSize(SubSeq(audioChunks, from, to)) < MinAudioSize THEN transcriptSegments
  ELSE IF result # "text" THEN transcriptSegments
  ELSE IF speechId \notin DOMAIN speeches THEN transcriptSegments
  ELSE Append(transcriptSegments,
              [speechId |-> speechId,
               sequenceNumber |-> GetLatestTranscriptSequence + 1,
               text |-> from..to])

\* Does the speech.transcribe call resolve (rather than throw)?
TranscribeResolves(speechId, from, to, result) ==
  \/ BlobSize(SubSeq(audioChunks, from, to)) < MinAudioSize
  \/ result = "error"
  \/ result = "text" /\ speechId \in DOMAIN speeches

\* processAudioChunk, run to its end: the unprocessed chunks are sent as one
\* blob unless it is too small, and processedIndexRef moves past them when the
\* mutation resolves.
ProcessAudioChunk(speechId, result) ==
  LET totalChunks == Len(audioChunks)
      processedCount == processedIndex
  IN  /\ IF totalChunks <= processedCount
            \/ BlobSize(SubSeq(audioChunks, processedCount + 1, totalChunks)) < MinBlobSize
         THEN UNCHANGED << transcriptSegments, processedIndex >>
         ELSE /\ transcriptSegments' =
                   TranscribedSegments(speechId, processedCount + 1, totalChunks, result)
              /\ processedIndex' =
                   IF TranscribeResolves(speechId, processedCount + 1, totalChunks, result)
                   THEN totalChunks ELSE processedCount
      /\ UNCHANGED << room, participants, motions, speeches, pois, calls,
                      liveTranscript, lastSequence, audioChunks >>

NextAudio ==
  \/ \E size \in ChunkSizes : RecordChunk(size) /\ UNCHANGED history
  \/ \E speechId \in SpeechIds, result \in TranscribeResults :
       ProcessAudioChunk(speechId, result) /\ UNCHANGED history

SpecAudio == InitTranscribe /\ [][NextAudio]_vars

\* ------------------------------------------------------------ properties
\* The anchor role of a slot: the role whose holder fulfils it (a reply slot
\* is fulfilled by its team's opening speaker, any other slot by its own role).
Anchor(role) ==
  CASE role = "government_reply" -> "prime_minister"
    [] role = "opposition_reply" -> "leader_of_opposition"
    [] OTHER -> role

\* The 0-based full-format indices of the slots whose anchor role is in roles.
PresentIndices(roles) ==
  { i \in 0..(Len(SPEAKING_ORDER) - 1) : Anchor(SPEAKING_ORDER[i + 1].role) \in roles }

MinOf(S) == CHOOSE x \in S : \A y \in S : x <= y

\* The roles of the current roster.
JoinedRoles == ParticipantRoles(participants)

RolesOf(order) == [i \in 1..Len(order) |-> order[i].role]

\* C1: for every non-empty roster of primary roles, the active speaking order
\* that advanceSpeaker derives is the format's slots whose anchor role is
\* joined (so a reply slot iff its anchor is), each once, in the format's order.
C1_ActiveOrderIsStableFilter ==
  JoinedRoles # {} =>
    LET order == ActiveSpeakingOrder(JoinedRoles) IN
      /\ \A i \in 1..Len(order) : \E k \in PresentIndices(JoinedRoles) :
           order[i] = SPEAKING_ORDER[k + 1]
      /\ \A k \in PresentIndices(JoinedRoles) : \E i \in 1..Len(order) :
           order[i] = SPEAKING_ORDER[k + 1]
      /\ Len(order) = Cardinality(PresentIndices(JoinedRoles))
      /\ \A i, j \in 1..Len(order) :
           i < j => \E k, l \in 0..(Len(SPEAKING_ORDER) - 1) :
                      /\ k < l
                      /\ order[i] = SPEAKING_ORDER[k + 1]
                      /\ order[j] = SPEAKING_ORDER[l + 1]

C1_Witness ==
  /\ response.op = "room.advanceSpeaker"
  /\ response.code = "OK"
  /\ JoinedRoles = {"deputy_prime_minister", "leader_of_opposition"}
  /\ RolesOf(ActiveSpeakingOrder(JoinedRoles)) =
       << "leader_of_opposition", "deputy_prime_minister", "opposition_reply" >>

\* C2: right after a successful room.start the room is in_progress, in phase
\* debate, with a start timestamp, and currentSpeakerIndex is the full-format
\* index of the first slot of the active order of the roster.
C2_StartSetsFirstActiveSlot ==
  (response.op = "room.start" /\ response.code = "OK") =>
    /\ room.status = "in_progress"
    /\ room.currentPhase = "debate"
    /\ room.startedAt = NewDate
    /\ ActiveSpeakingOrder(JoinedRoles) # << >>
    /\ room.currentSpeakerIndex = MinOf(PresentIndices(JoinedRoles))
    /\ SPEAKING_ORDER[room.currentSpeakerIndex + 1] = ActiveSpeakingOrder(JoinedRoles)[1]

C2_Witness ==
  /\ response.op = "room.start"
  /\ response.code = "OK"
  /\ "prime_minister" \notin JoinedRoles
  /\ "leader_of_opposition" \notin JoinedRoles
  /\ room.currentSpeakerIndex = 3

\* The roster of C3: deputy_prime_minister and the three opposition roles.
C3_Roster ==
  {"deputy_prime_minister", "leader_of_opposition",
   "deputy_leader_of_opposition", "opposition_whip"}

\* C3 as stated: a successful start with that roster sets currentSpeakerIndex
\* to 2, the index of deputy_prime_minister.
C3_Original ==
  (response.op = "room.start" /\ response.code = "OK" /\ JoinedRoles = C3_Roster) =>
    room.currentSpeakerIndex = 2

\* C3 as amended: with that roster the first joined slot in format order is
\* leader_of_opposition, and a successful start sets currentSpeakerIndex to
\* its index 1 (neither 0 nor 2).
C3_StartAtLeaderOfOpposition ==
  (response.op = "room.start" /\ response.code = "OK" /\ JoinedRoles = C3_Roster) =>
    /\ room.currentSpeakerIndex = 1
    /\ SPEAKING_ORDER[room.currentSpeakerIndex + 1].role = "leader_of_opposition"

C3_Witness ==
  /\ response.op = "room.start"
  /\ response.code = "OK"
  /\ JoinedRoles = C3_Roster
  /\ room.status = "in_progress"

\* The steps that handle a room.advanceSpeaker call on an existing room whose
\* current slot is in the active order.
AdvanceFromActiveSlot ==
  /\ response'.op = "room.advanceSpeaker"
  /\ room.exists
  /\ room.currentSpeakerIndex \in PresentIndices(JoinedRoles)

\* The full-format indices of the joined slots after the current one.
LaterIndices ==
  { i \in PresentIndices(JoinedRoles) : i > room.currentSpeakerIndex }

\* C4: an advanceSpeaker call made while the current slot is in the active
\* order and is not its last slot stores the index of the nearest later joined
\* slot as currentSpeakerIndex and returns it as nextSpeakerIndex with
\* completed = false.
C4_AdvanceToNextActiveSlot ==
  [][ (AdvanceFromActiveSlot /\ LaterIndices # {}) =>
        /\ room'.currentSpeakerIndex = MinOf(LaterIndices)
        /\ response'.code = "OK"
        /\ response'.completed = FALSE
        /\ response'.nextSpeakerIndex = room'.currentSpeakerIndex ]_vars

C4_Witness ==
  /\ response.op = "room.advanceSpeaker"
  /\ response.completed = FALSE
  /\ response.nextSpeakerIndex = 4
  /\ room.currentSpeakerIndex = 4
  /\ room.status = "in_progress"
  /\ JoinedRoles = {"prime_minister", "government_whip"}

\* C5: an advanceSpeaker call made while the current slot is the last slot of
\* the active order returns completed = true with no next index and leaves the
\* room completed, in phase feedback, with an end timestamp.
C5_AdvanceOnLastSlotCompletes ==
  [][ (AdvanceFromActiveSlot /\ LaterIndices = {}) =>
        /\ response'.code = "OK"
        /\ response'.completed = TRUE
        /\ response'.nextSpeakerIndex = NoIndex
        /\ room'.status = "completed"
        /\ room'.currentPhase = "feedback"
        /\ room'.endedAt = NewDate
        /\ room'.currentSpeakerIndex = room.currentSpeakerIndex ]_vars

C5_Witness ==
  /\ response.op = "room.advanceSpeaker"
  /\ response.completed = TRUE
  /\ room.status = "completed"
  /\ room.currentPhase = "feedback"
  /\ room.startedAt = NewDate
  /\ room.currentSpeakerIndex = 5
  /\ JoinedRoles = {"deputy_prime_minister", "opposition_whip"}

\* The roster of C6: the two opening speakers only.
C6_Roster == {"prime_minister", "leader_of_opposition"}

\* The steps and states of C6: an advanceSpeaker call has just been handled
\* in a started room whose roster is C6_Roster.
C6_Advanced ==
  /\ JoinedRoles = C6_Roster
  /\ room.exists
  /\ room.startedAt = NewDate
  /\ response.op = "room.advanceSpeaker"

C6_FourSlots ==
  RolesOf(ActiveSpeakingOrder(C6_Roster)) =
    << "prime_minister", "leader_of_opposition", "opposition_reply", "government_reply" >>

\* C6 as stated: with that roster the active order is the four slots, and
\* after a successful start the advanceSpeaker calls return completed = true
\* on the 5th call and on no earlier one.
C6_Original ==
  C6_Advanced =>
    /\ C6_FourSlots
    /\ (advanceCalls < 5 => response.completed = FALSE)
    /\ (advanceCalls = 5 => response.completed = TRUE)

\* C6 as amended: the active order is the four slots, and completed = true is
\* returned on the 4th call after the start and on none of the first three.
C6_CompletedOnFourthCall ==
  C6_Advanced =>
    /\ C6_FourSlots
    /\ (advanceCalls < 4 => response.completed = FALSE)
    /\ (advanceCalls = 4 => response.completed = TRUE)

C6_Witness ==
  /\ C6_Advanced
  /\ advanceCalls = 4
  /\ response.completed = TRUE
  /\ room.status = "completed"
  /\ room.currentSpeakerIndex = 7

\* C7: a room.start call made while some joined participant is not ready
\* fails and leaves the room as it was; when the caller is the creator and a
\* motion is set, the failure is the "All participants must be ready" one.
C7_StartFailsUnlessAllReady ==
  [][ (response'.op = "room.start" /\ \E p \in participants : ~p.isReady) =>
        /\ response'.code \in {"FORBIDDEN", "BAD_REQUEST"}
        /\ room' = room
        /\ ( (room.creatorId = response'.user /\ room.motionId # NULL) =>
               /\ response'.code = "BAD_REQUEST"
               /\ response'.message = "All participants must be ready" ) ]_vars

C7_Witness ==
  /\ response.op = "room.start"
  /\ response.message = "All participants must be ready"
  /\ response.user = room.creatorId
  /\ room.motionId # NULL
  /\ room.status = "waiting"
  /\ Cardinality({ p \in participants : p.isReady }) = 3
  /\ Cardinality({ p \in participants : ~p.isReady }) = 1

\* C8: a room.start call by a user other than the room's creator fails with
\* FORBIDDEN and leaves the room as it was, whatever the motion, the roster
\* and its readiness.
C8_StartByNonCreatorForbidden ==
  [][ (response'.op = "room.start" /\ room.exists /\ response'.user # room.creatorId) =>
        /\ response'.code = "FORBIDDEN"
        /\ room' = room ]_vars

C8_Witness ==
  /\ response.op = "room.start"
  /\ response.code = "FORBIDDEN"
  /\ response.user # room.creatorId
  /\ room.motionId # NULL
  /\ participants # {}
  /\ \A p \in participants : p.isReady
  /\ room.status = "waiting"

\* C9: a room.start call succeeds only on an existing room, from its creator,
\* with a motion attached and at least one participant joined; without a
\* motion or without participants it fails and the room is left as it was.
C9_StartPreconditions ==
  [][ response'.op = "room.start" =>
        /\ ( response'.code = "OK" =>
               /\ room.exists
               /\ room.creatorId = response'.user
               /\ room.motionId # NULL
               /\ Cardinality(participants) >= 1 )
        /\ ( (~room.exists \/ room.motionId = NULL \/ participants = {}) =>
               /\ response'.code # "OK"
               /\ room' = room ) ]_vars

C9_Witness ==
  /\ response.op = "room.start"
  /\ response.message = "At least one participant must join before starting"
  /\ response.user = room.creatorId
  /\ room.motionId # NULL
  /\ participants = {}
  /\ room.status = "waiting"

\* C10 as stated: an advanceSpeaker call on a room whose status is not
\* in_progress is rejected and writes nothing to the room.
C10_Original ==
  [][ (response'.op = "room.advanceSpeaker" /\ room.exists
         /\ room.status # "in_progress") =>
        /\ response'.code # "OK"
        /\ room' = room ]_vars

\* The stages of currentPhase, in their order.
PhaseRank(phase) ==
  CASE phase = "setup" -> 0
    [] phase = "debate" -> 1
    [] phase = "feedback" -> 2
    [] phase = "completed" -> 3

\* C11 as stated: no step of room.start, room.advanceSpeaker or
\* feedback.generate (or of any other procedure) moves the room's phase to an
\* earlier stage of setup < debate < feedback < completed.
C11_Original ==
  [][ room.exists => PhaseRank(room'.currentPhase) >= PhaseRank(room.currentPhase) ]_vars

\* C12 as stated: a room.start call changes the room only when the room is
\* waiting and in phase setup.
C12_Original ==
  [][ (response'.op = "room.start" /\ room' # room) =>
        /\ room.status = "waiting"
        /\ room.currentPhase = "setup" ]_vars

\* C13 as stated: every step that makes a room completed, in phase feedback,
\* starts from a room that is in_progress, in phase debate.
C13_Original ==
  [][ ( /\ room.exists
        /\ room'.status = "completed" /\ room'.currentPhase = "feedback"
        /\ ~(room.status = "completed" /\ room.currentPhase = "feedback") ) =>
        /\ room.status = "in_progress"
        /\ room.currentPhase = "debate" ]_vars

\* C16 as stated: once the room is completed (an advanceSpeaker call has
\* returned completed = true: nothing else writes that status), an
\* advanceSpeaker call leaves the room as it is.
C16_Original ==
  [][ (room.exists /\ room.status = "completed" /\ RoomAdvanceSpeaker) =>
        room' = room ]_vars

\* The k-th smallest element of a set of numbers.
KthOf(S, k) == CHOOSE x \in S : Cardinality({ y \in S : y < x }) = k - 1

\* C17: in a started room with its roster left alone, after n advanceSpeaker
\* calls the current slot is the (n+1)-th joined slot in format order as long
\* as n is less than the number of joined slots (at most 8), and the call
\* that returns completed = true is the one whose number is that number: the
\* joined slots are current once each, in format order, and no other slot is.
C17_TurnsThenCompletes ==
  (room.exists /\ room.startedAt = NewDate) =>
    LET joined == PresentIndices(JoinedRoles)
        n == Cardinality(joined)
    IN  /\ n \in 1..Len(SPEAKING_ORDER)
        /\ room.status \in {"in_progress", "completed"}
        /\ room.status = "in_progress" =>
             /\ advanceCalls < n
             /\ room.currentSpeakerIndex = KthOf(joined, advanceCalls + 1)
        /\ room.status = "completed" =>
             /\ advanceCalls >= n
             /\ room.currentSpeakerIndex = KthOf(joined, n)
        /\ response.op = "room.advanceSpeaker" =>
             (response.completed <=> advanceCalls >= n)

C17_Witness ==
  /\ room.exists
  /\ room.startedAt = NewDate
  /\ JoinedRoles = PrimaryRoles
  /\ response.op = "room.advanceSpeaker"
  /\ response.completed = TRUE
  /\ advanceCalls = 8
  /\ room.currentSpeakerIndex = 7

\* C20 as stated: once room.start has succeeded on the room, no step changes
\* the set of joined roles.
C20_Original ==
  [][ (room.exists /\ room.startedAt = NewDate) =>
        ParticipantRoles(participants') = ParticipantRoles(participants) ]_vars

TurnState(r) == << r.currentSpeakerIndex, r.currentPhase, r.status >>

StartStep == \E user \in Users : RoomStart(user)

FeedbackStep == \E llmOk \in BOOLEAN : FeedbackGenerate(llmOk)

\* A step of a procedure other than start, advanceSpeaker and feedback.generate.
OtherStep ==
  \/ \E user \in Users, team \in Teams, speakerRole \in FrameRoles :
       RoomJoin(user, team, speakerRole)
  \/ \E user \in Users : RoomLeave(user)
  \/ \E user \in Users, isReady \in BOOLEAN : RoomSetReady(user, isReady)
  \/ \E llmOk \in BOOLEAN : MotionGenerate(llmOk)
  \/ \E user \in Users : SpeechCreate(user)
  \/ \E speechId \in SpeechIds : SpeechUpdateTranscript(speechId)
  \/ \E speechId \in SpeechIds : SpeechEnd(speechId)
  \/ \E speechId \in SpeechIds, transcribed \in BOOLEAN :
       SpeechTranscribe(speechId, transcribed)
  \/ \E user \in Users : PoiOffer(user)
  \/ \E poiId \in PoiIds, accepted \in BOOLEAN : PoiRespond(poiId, accepted)

\* C14 as stated: after creation, a step that changes currentSpeakerIndex,
\* phase or status is a step of room.start or of room.advanceSpeaker.
C14_Original ==
  [][ (room.exists /\ TurnState(room') # TurnState(room)) =>
        (StartStep \/ RoomAdvanceSpeaker) ]_vars

\* C14, amended: after creation, a step that changes currentSpeakerIndex, phase
\* or status is a step of room.start, room.advanceSpeaker or feedback.generate;
\* feedback.generate changes the phase only, to completed; join, leave,
\* setReady, motion.generate and the speech, transcript and poi procedures
\* leave all three fields unchanged.
C14_TurnStateWriters ==
  [][ room.exists =>
        /\ (TurnState(room') # TurnState(room)) =>
             (StartStep \/ RoomAdvanceSpeaker \/ FeedbackStep)
        /\ FeedbackStep =>
             /\ room'.currentSpeakerIndex = room.currentSpeakerIndex
             /\ room'.status = room.status
             /\ room'.currentPhase \in {room.currentPhase, "completed"}
        /\ OtherStep => TurnState(room') = TurnState(room) ]_vars

C14_Witness ==
  /\ room.exists
  /\ room.status = "in_progress"
  /\ room.currentPhase = "completed"
  /\ Len(speeches) > 0
  /\ Len(transcriptSegments) > 0
  /\ Len(pois) > 0

\* C15 as stated: no two participant rows of the room hold the same speaker
\* role and no two are rows of the same user, whatever the interleaving of
\* the room.join calls' reads and inserts.
C15_Original ==
  \A p, q \in participants :
    p # q => (p.speakerRole # q.speakerRole /\ p.userId # q.userId)

\* C19 as stated: with the roster left alone, whatever the interleaving of
\* the advanceSpeaker calls' reads and writes, no step moves currentSpeakerIndex
\* to an earlier slot (in a started room with a fixed roster the current slot
\* is in the active order, where full-format index and position grow
\* together), and no step changes currentSpeakerIndex once the room is
\* completed.
C19_Original ==
  [][ /\ room'.currentSpeakerIndex >= room.currentSpeakerIndex
      /\ room.status = "completed" =>
           room'.currentSpeakerIndex = room.currentSpeakerIndex ]_vars

\* The steps that handle a room.advanceSpeaker call on an existing room whose
\* current slot is not in the active order.
AdvanceFromAbsentSlot ==
  /\ response'.op = "room.advanceSpeaker"
  /\ room.exists
  /\ room.currentSpeakerIndex \notin PresentIndices(JoinedRoles)

\* C21: an advanceSpeaker call made while the current slot is not in the
\* active order restarts at the order's first slot: it stores that slot's
\* full-format index, returns it with completed = false and writes nothing
\* else; when the active order is empty it marks the room completed instead.
C21_AdvanceFromAbsentSlotRestarts ==
  [][ AdvanceFromAbsentSlot =>
        IF JoinedRoles = {}
        THEN /\ response'.code = "OK"
             /\ response'.completed = TRUE
             /\ response'.nextSpeakerIndex = NoIndex
             /\ room' = [room EXCEPT !.status = "completed",
                                     !.currentPhase = "feedback",
                                     !.endedAt = NewDate]
        ELSE /\ response'.code = "OK"
             /\ response'.completed = FALSE
             /\ response'.nextSpeakerIndex = MinOf(PresentIndices(JoinedRoles))
             /\ room' = [room EXCEPT !.currentSpeakerIndex =
                                       MinOf(PresentIndices(JoinedRoles))] ]_vars

C21_Witness ==
  /\ response.op = "room.advanceSpeaker"
  /\ response.completed = FALSE
  /\ response.nextSpeakerIndex = 3
  /\ advanceCalls = 1
  /\ room.status = "waiting"
  /\ room.currentSpeakerIndex = 3
  /\ JoinedRoles = {"deputy_leader_of_opposition", "opposition_whip"}

ReplyRoles == {"opposition_reply", "government_reply"}

\* C22: the active order of a non-empty roster is non-empty and starts with a
\* regular slot, each reply slot in it comes after the regular slot of its
\* anchor role, and the active order of the empty roster is empty.
C22_ActiveOrderShape ==
  LET order == RolesOf(ActiveSpeakingOrder(JoinedRoles))
  IN  /\ (order = << >>) <=> (JoinedRoles = {})
      /\ order # << >> => order[1] \notin ReplyRoles
      /\ \A i \in DOMAIN order :
           order[i] \in ReplyRoles =>
             \E j \in 1..(i - 1) : order[j] = Anchor(order[i])

C22_Witness ==
  /\ response.op = "room.advanceSpeaker"
  /\ response.code = "OK"
  /\ JoinedRoles = {"leader_of_opposition", "deputy_prime_minister"}
  /\ RolesOf(ActiveSpeakingOrder(JoinedRoles)) =
       << "leader_of_opposition", "deputy_prime_minister", "opposition_reply" >>

\* C23 as stated: while the room is in_progress, currentSpeakerIndex is one of
\* 0..7 and the slot it designates is in the active order of the current
\* roster.
C23_Original ==
  (room.exists /\ room.status = "in_progress") =>
    /\ room.currentSpeakerIndex \in 0..(Len(SPEAKING_ORDER) - 1)
    /\ room.currentSpeakerIndex \in PresentIndices(JoinedRoles)

\* C24 as stated: while the room is in_progress exactly one participant
\* holds the turn, the one whose role is the current slot's anchor role, and
\* isMyTurn is true for that participant's user and for no other user.
C24_Original ==
  (room.exists /\ room.status = "in_progress") =>
    /\ Cardinality(CurrentParticipants) = 1
    /\ \A p \in CurrentParticipants : p.speakerRole = Anchor(CurrentSpeakerRole(room))
    /\ Cardinality({ user \in Users : IsMyTurn(user) }) = 1

\* C25: a room.start call reports the first failing precondition, in the
\* order room missing (NOT_FOUND), caller not the creator (FORBIDDEN), no
\* motion, no participants, not all ready (BAD_REQUEST, each with its own
\* message), and a failing call leaves the room as it was.
C25_StartReportsFirstFailure ==
  [][ response'.op = "room.start" =>
        LET missing == ~room.exists
            notCreator == room.exists /\ room.creatorId # response'.user
            noMotion == room.exists /\ room.motionId = NULL
            noParticipants == participants = {}
            notAllReady == \E p \in participants : ~p.isReady
            earlier3 == missing \/ notCreator \/ noMotion
        IN  /\ (response'.code = "NOT_FOUND") <=> missing
            /\ (response'.code = "FORBIDDEN") <=> (~missing /\ notCreator)
            /\ (response'.message = "A motion must be set before starting") <=>
                 (~missing /\ ~notCreator /\ noMotion)
            /\ (response'.message = "At least one participant must join before starting") <=>
                 (~earlier3 /\ noParticipants)
            /\ (response'.message = "All participants must be ready") <=>
                 (~earlier3 /\ ~noParticipants /\ notAllReady)
            /\ (response'.code = "BAD_REQUEST") <=>
                 (~missing /\ ~notCreator /\ (noMotion \/ noParticipants \/ notAllReady))
            /\ (response'.code # "OK") => room' = room ]_vars

C25_Witness ==
  /\ response.op = "room.start"
  /\ response.code = "FORBIDDEN"
  /\ response.user # room.creatorId
  /\ room.motionId = NULL
  /\ \E p \in participants : ~p.isReady
  /\ room.status = "waiting"

\* C26 as stated: the sequence numbers of the stored transcript segments are
\* strictly increasing in insertion order (hence pairwise distinct), whatever
\* the interleaving of the speech.transcribe calls' reads and inserts.
C26_Original ==
  \A i, j \in DOMAIN transcriptSegments :
    i < j => transcriptSegments[i].sequenceNumber < transcriptSegments[j].sequenceNumber

\* What a client holds of the stored segments: no id twice, in sequence
\* number order, and whatever is stored and not held is numbered above
\* lastSequence, so that a later poll returns it.
C28_Held ==
  /\ \A i, j \in DOMAIN liveTranscript :
       /\ i # j => liveTranscript[i].id # liveTranscript[j].id
       /\ i < j => liveTranscript[i].sequenceNumber <= liveTranscript[j].sequenceNumber
  /\ \A id \in DOMAIN transcriptSegments :
       \/ \E i \in DOMAIN liveTranscript : liveTranscript[i].id = id
       \/ transcriptSegments[id].sequenceNumber > lastSequence

\* C28 as stated, for finite runs: across every step lastSequence does not
\* decrease, and the client keeps holding each stored segment once, in order,
\* or can still get it by polling after lastSequence.
C28_Original ==
  [][ lastSequence' >= lastSequence /\ C28_Held' ]_vars

\* C27 as stated: every chunk that processedIndex has moved past is part of
\* a batch whose text was stored as a transcript segment.
C27_Original ==
  \A i \in 1..processedIndex :
    \E k \in DOMAIN transcriptSegments : i \in transcriptSegments[k].text

\* The team of the format slot of a role.
SlotTeam(role) == SPEAKING_ORDER[FindIndex(SPEAKING_ORDER, role) + 1].team

\* C29: each participant's team is the team of the format slot of their
\* role: no room.join call adds a row whose team and role do not match.
C29_TeamMatchesRole ==
  \A p \in participants : p.team = SlotTeam(p.speakerRole)

C29_Witness ==
  /\ room.exists
  /\ \E p \in participants : p.team = "government" /\ p.speakerRole = "government_whip"
  /\ \E p \in participants : p.team = "opposition" /\ p.speakerRole = "opposition_whip"

\* The write sets of advanceSpeaker's two branches: a call that does not
\* complete the debate changes currentSpeakerIndex only, a call that completes
\* it changes phase, status and endedAt only, and neither changes the roster
\* or the motions.
AdvanceWriteSets ==
  (response'.op = "room.advanceSpeaker" /\ room.exists) =>
    /\ participants' = participants
    /\ motions' = motions
    /\ IF response'.completed
       THEN \A f \in DOMAIN room :
              f \notin {"currentPhase", "status", "endedAt"} => room'[f] = room[f]
       ELSE \A f \in DOMAIN room :
              f # "currentSpeakerIndex" => room'[f] = room[f]

\* C30 as stated: the two branches of advanceSpeaker write those disjoint
\* sets of fields, and after a call that completes the debate
\* currentSpeakerIndex designates the last slot of the active order.
C30_Original ==
  [][ /\ AdvanceWriteSets
      /\ (response'.op = "room.advanceSpeaker" /\ room.exists /\ response'.completed) =>
           /\ room'.currentSpeakerIndex \in PresentIndices(JoinedRoles)
           /\ \A i \in PresentIndices(JoinedRoles) : i <= room'.currentSpeakerIndex ]_vars

\* C31: the format's roles are pairwise distinct, and for every position p
\* (0-based) of the active order, the full-format index i found for the
\* slot's role designates that same slot, grows strictly with p, and the
\* role of format[i] is found back in the active order at position p.
C31_PositionIndexRoundTrip ==
  LET order == ActiveSpeakingOrder(JoinedRoles)
      positions == 0..(Len(order) - 1)
  IN  /\ \A i, j \in DOMAIN SPEAKING_ORDER :
           i # j => SPEAKING_ORDER[i].role # SPEAKING_ORDER[j].role
      /\ \A p \in positions :
           LET i == NextFullIndex(p, order)
           IN  /\ i \in 0..(Len(SPEAKING_ORDER) - 1)
               /\ SPEAKING_ORDER[i + 1] = order[p + 1]
               /\ FindIndex(order, SPEAKING_ORDER[i + 1].role) = p
      /\ \A p, q \in positions :
           p < q => NextFullIndex(p, order) < NextFullIndex(q, order)

C31_Witness ==
  /\ room.exists
  /\ room.status = "in_progress"
  /\ JoinedRoles = {"leader_of_opposition"}
  /\ response.op = "room.advanceSpeaker"
  /\ response.nextSpeakerIndex = 6
  /\ room.currentSpeakerIndex = 6
  /\ FindIndex(ActiveSpeakingOrder(JoinedRoles), CurrentSpeakerRole(room)) = 1

====
